---- MODULE Spec2Model ----
(***************************************************************************)
(* A model of regex-replace (src/src/main.rs): the windowed line replacer, *)
(* the whole-file replacer, the window sizer and main's dispatch / commit. *)
(*                                                                         *)
(* Text is a sequence of one-character strings.  A compiled regex is the   *)
(* literal character sequence it matches (the patterns drawn below use no  *)
(* metacharacters besides backslash escapes).                              *)
(***************************************************************************)
EXTENDS Integers, Sequences, FiniteSets, TLC

\* ------------------------------------------------------------------ bounds
\* Most lines of a generated file in the replacer specification.
MaxLines == 5
\* Most pieces of a generated pattern in the sizer specification.
MaxPieces == 2
\* Most entries of the file list in the main specification.
MaxJobs == 3

\* -------------------------------------------------------------- characters
LF == "\n"
CR == "\r"
BS == "\\"

\* ------------------------------------------------------------- text helpers
RECURSIVE Concat(_)
\* The concatenation of a sequence of texts.
Concat(ss) == IF ss = <<>> THEN <<>> ELSE Head(ss) \o Concat(Tail(ss))

RECURSIVE Join(_, _)
\* [String]::join(sep): the texts with sep between neighbours.
Join(ls, sep) ==
  IF ls = <<>> THEN <<>>
  ELSE IF Len(ls) = 1 THEN ls[1]
  ELSE ls[1] \o <<sep>> \o Join(Tail(ls), sep)

\* The first index of ch in text, 0 when there is none.
IndexOf(text, ch) ==
  IF \E i \in 1..Len(text) : text[i] = ch
  THEN CHOOSE i \in 1..Len(text) : text[i] = ch /\ \A j \in 1..(i - 1) : text[j] # ch
  ELSE 0

RECURSIVE Split(_, _)
\* str::split(ch): the pieces between occurrences of ch (always at least one).
Split(text, ch) ==
  LET i == IndexOf(text, ch)
  IN  IF i = 0 THEN <<text>>
      ELSE <<SubSeq(text, 1, i - 1)>> \o Split(SubSeq(text, i + 1, Len(text)), ch)

\* Whether sub occurs in text starting at index i.
OccursAt(sub, text, i) ==
  /\ i >= 1
  /\ i + Len(sub) - 1 <= Len(text)
  /\ SubSeq(text, i, i + Len(sub) - 1) = sub

RECURSIVE CountFrom(_, _, _)
CountFrom(text, sub, i) ==
  IF i > Len(text) THEN 0
  ELSE IF OccursAt(sub, text, i) THEN 1 + CountFrom(text, sub, i + Len(sub))
  ELSE CountFrom(text, sub, i + 1)

\* str::matches(sub).count(): the non-overlapping occurrences, left to right.
MatchesCount(text, sub) == CountFrom(text, sub, 1)

\* BufRead::lines(): the text cut at every LF; a final LF ends the last line
\* and opens no further one; a CR right before a cutting LF is dropped.
StripCR(l) == IF l # <<>> /\ l[Len(l)] = CR THEN SubSeq(l, 1, Len(l) - 1) ELSE l
BufLines(content) ==
  LET parts == Split(content, LF)
      n     == Len(parts)
      kept  == IF parts[n] = <<>> THEN n - 1 ELSE n
  IN  [k \in 1..kept |-> IF k < n THEN StripCR(parts[k]) ELSE parts[k]]

\* ------------------------------------------------------------------- regex
\* Regex::is_match for a literal regex.
is_match(re, text) == \E i \in 1..Len(text) : OccursAt(re, text, i)

RECURSIVE ReplaceFrom(_, _, _, _)
ReplaceFrom(re, text, rep, i) ==
  IF i > Len(text) THEN <<>>
  ELSE IF OccursAt(re, text, i) THEN rep \o ReplaceFrom(re, text, rep, i + Len(re))
  ELSE <<text[i]>> \o ReplaceFrom(re, text, rep, i + 1)

\* Regex::replace_all for a literal regex and a replacement without
\* capture references: every leftmost non-overlapping match is replaced.
replace_all(re, text, rep) == ReplaceFrom(re, text, rep, 1)

\* The origin of replace_all's output, character by character: TRUE on the
\* characters of an inserted replacement, the mark of its source character
\* (marks, parallel to text) on a character that is kept.
RECURSIVE MarksFrom(_, _, _, _, _)
MarksFrom(re, text, marks, rep, i) ==
  IF i > Len(text) THEN <<>>
  ELSE IF OccursAt(re, text, i)
    THEN [k \in 1..Len(rep) |-> TRUE] \o MarksFrom(re, text, marks, rep, i + Len(re))
  ELSE <<marks[i]>> \o MarksFrom(re, text, marks, rep, i + 1)

\* Whether one of the matches replace_all replaces from index i on covers a
\* marked character.
RECURSIVE ResubFrom(_, _, _, _)
ResubFrom(re, text, marks, i) ==
  IF i > Len(text) THEN FALSE
  ELSE IF OccursAt(re, text, i)
    THEN (\E k \in i..(i + Len(re) - 1) : marks[k])
         \/ ResubFrom(re, text, marks, i + Len(re))
  ELSE ResubFrom(re, text, marks, i + 1)

\* The marks of text cut the way Split(text, ch) cuts text.
RECURSIVE SplitMarks(_, _, _)
SplitMarks(text, marks, ch) ==
  LET i == IndexOf(text, ch)
  IN  IF i = 0 THEN <<marks>>
      ELSE <<SubSeq(marks, 1, i - 1)>>
           \o SplitMarks(SubSeq(text, i + 1, Len(text)),
                         SubSeq(marks, i + 1, Len(marks)), ch)

\* Lines read from the source: no character of them comes from a substitution.
Unmarked(ls) == [k \in 1..Len(ls) |-> [c \in 1..Len(ls[k]) |-> FALSE]]

\* Regex::new for the supported syntax: a plain character matches itself, a
\* backslash followed by n or r matches LF or CR, any other backslash escape
\* (a trailing backslash included) is a syntax error.
RECURSIVE CompileFrom(_, _)
CompileFrom(src, i) ==
  IF i > Len(src) THEN [ok |-> TRUE, lit |-> <<>>]
  ELSE IF src[i] # BS
    THEN LET r == CompileFrom(src, i + 1)
         IN  [ok |-> r.ok, lit |-> <<src[i]>> \o r.lit]
  ELSE IF i + 1 <= Len(src) /\ src[i + 1] \in {"n", "r"}
    THEN LET r == CompileFrom(src, i + 2)
         IN  [ok |-> r.ok, lit |-> <<IF src[i + 1] = "n" THEN LF ELSE CR>> \o r.lit]
  ELSE [ok |-> FALSE, lit |-> <<>>]

\* Regex::new(&args.pattern): Ok(re) or Err.
RegexNew(src) == CompileFrom(src, 1)

\* unescape::unescape(&args.replacement): Some(text) or None; \n, \r and \\
\* are decoded, an unknown or unfinished escape gives None.
RECURSIVE UnescapeFrom(_, _)
UnescapeFrom(src, i) ==
  IF i > Len(src) THEN [ok |-> TRUE, text |-> <<>>]
  ELSE IF src[i] # BS
    THEN LET r == UnescapeFrom(src, i + 1)
         IN  [ok |-> r.ok, text |-> <<src[i]>> \o r.text]
  ELSE IF i + 1 <= Len(src) /\ src[i + 1] \in {"n", "r", BS}
    THEN LET r == UnescapeFrom(src, i + 2)
             c == IF src[i + 1] = "n" THEN LF ELSE IF src[i + 1] = "r" THEN CR ELSE BS
         IN  [ok |-> r.ok, text |-> <<c>> \o r.text]
  ELSE [ok |-> FALSE, text |-> <<>>]

unescape(src) == UnescapeFrom(src, 1)

\* ------------------------------------------------------------ window sizer
\* The seven escape forms main counts in the pattern's source text.
NEW_LINES ==
  << <<BS, "n">>,
     <<BS, "r">>,
     <<BS, "r", BS, "n">>,
     <<BS, "u", "{", "0", "0", "0", "B", "}">>,
     <<BS, "u", "{", "0", "0", "0", "C", "}">>,
     <<BS, "u", "{", "2", "0", "2", "8", "}">>,
     <<BS, "u", "{", "2", "0", "2", "9", "}">> >>

RECURSIVE SumCounts(_, _)
SumCounts(pattern, k) ==
  IF k = 0 THEN 0
  ELSE MatchesCount(pattern, NEW_LINES[k]) + SumCounts(pattern, k - 1)

\* count: the sum over NEW_LINES of pattern.matches(newline).count().
count(pattern) == SumCounts(pattern, Len(NEW_LINES))

\* max_line_number = count + 1.
MaxLineNumber(pattern) == count(pattern) + 1

\* ------------------------------------------------------- windowed replacer
Min(a, b) == IF a < b THEN a ELSE b

\* A read that loses the line after those it returns.
read_lines_Skipping(reader, num_lines) ==
  LET n == Min(num_lines, Len(reader))
  IN  [lines |-> SubSeq(reader, 1, n), rest |-> SubSeq(reader, n + 2, Len(reader))]

\* LineReader::read_lines(num_lines): the next num_lines lines of the
\* reader (fewer at the end of the source) and the reader after them.
read_lines(reader, num_lines) ==
  LET n == Min(num_lines, Len(reader))
  IN  [lines |-> SubSeq(reader, 1, n), rest |-> SubSeq(reader, n + 1, Len(reader))]

\* An initial load of one line for every window size.
InitialLoad_One(W) == 1

\* The number of lines of the initial load.
InitialLoad(W) == IF W = 1 THEN 1 ELSE W * 2

\* A cut that holds back every line.
split_at_Zero(n, W) == 0

\* split_at: the index that cuts off the last W lines.
split_at(n, W) == IF n > W THEN n - W ELSE 0

\* processed_part / unprocessed_part of the substituted lines.
processed_part(ls, W) ==
  IF W = 1 THEN ls ELSE SubSeq(ls, 1, split_at(Len(ls), W))

\* unprocessed_part without the single-line case: the last W lines are held
\* back for W = 1 too.
unprocessed_part_Held(ls, W) == SubSeq(ls, split_at(Len(ls), W) + 1, Len(ls))

unprocessed_part(ls, W) ==
  IF W = 1 THEN <<>> ELSE SubSeq(ls, split_at(Len(ls), W) + 1, Len(ls))

\* for line in processed_part { writeln!(file, "{}", line) }
WriteProcessed(ls) == Concat([k \in 1..Len(ls) |-> ls[k] \o <<LF>>])

\* for line in last_lines { write!(file, "{}", line) }
WriteLast(ls) == Concat(ls)

\* The state of one run: the Line Buffer, the reader's remaining lines,
\* the text written to the temporary file, the suffix held back by the last
\* iteration, the lines its read pulled, and where the run stands:
\* "loop" (at the loop head), "flush" (left the loop), "ok", "err".  For the
\* properties: iters counts the passes through the loop body, marks tells
\* which characters of the Line Buffer a substitution produced, resub whether
\* a substitution has consumed such a character.
OpenState(content, W) ==
  LET rd == read_lines(BufLines(content), InitialLoad(W))
  IN  [buffer_lines |-> rd.lines, line_reader |-> rd.rest, file |-> <<>>,
       last_lines |-> <<>>, next |-> rd.lines, pc |-> "loop",
       iters |-> 0, marks |-> Unmarked(rd.lines), resub |-> FALSE]

\* A re-match check made for every window size.
cross_line_check_Always(W) == TRUE

\* The re-match check is made for a multi-line pattern only.
cross_line_check(W) == W > 1

\* One pass through the loop body with a non-empty Line Buffer.
LoopBody(s, regex, rep, W) ==
  LET buffer_text          == Join(s.buffer_lines, LF)
      buffer_text_replaced == replace_all(regex, buffer_text, rep)
      buffer_marks         == Join(s.marks, FALSE)
      resub == s.resub \/ ResubFrom(regex, buffer_text, buffer_marks, 1)
  IN  IF cross_line_check(W) /\ is_match(regex, buffer_text_replaced)
      THEN [s EXCEPT !.pc = "err", !.iters = @ + 1, !.resub = resub]
      ELSE
        LET buffer_lines_replaced == Split(buffer_text_replaced, LF)
            processed   == processed_part(buffer_lines_replaced, W)
            unprocessed == unprocessed_part(buffer_lines_replaced, W)
            written     == s.file \o WriteProcessed(processed)
            rd          == read_lines(s.line_reader, W)
            marks_replaced ==
              SplitMarks(buffer_text_replaced,
                         MarksFrom(regex, buffer_text, buffer_marks, rep, 1), LF)
            held_marks  == unprocessed_part(marks_replaced, W)
        IN  IF rd.lines = <<>>
            THEN [buffer_lines |-> <<>>, line_reader |-> rd.rest,
                  file |-> written \o WriteLast(unprocessed),
                  last_lines |-> unprocessed, next |-> rd.lines, pc |-> "flush",
                  iters |-> s.iters + 1, marks |-> <<>>, resub |-> resub]
            ELSE [buffer_lines |-> unprocessed \o rd.lines, line_reader |-> rd.rest,
                  file |-> written,
                  last_lines |-> unprocessed, next |-> rd.lines, pc |-> "loop",
                  iters |-> s.iters + 1, marks |-> held_marks \o Unmarked(rd.lines),
                  resub |-> resub]

\* One step of the loop: leave it on an empty Line Buffer, else run the body.
LoopStep(s, regex, rep, W) ==
  IF s.buffer_lines = <<>> THEN [s EXCEPT !.pc = "flush"]
  ELSE LoopBody(s, regex, rep, W)

RECURSIVE RunLoop(_, _, _, _)
RunLoop(s, regex, rep, W) ==
  IF s.pc # "loop" THEN s ELSE RunLoop(LoopStep(s, regex, rep, W), regex, rep, W)

\* replace_in_file_line_by_line: Ok with the text of the persisted temporary
\* file, or Err (a structural failure, or io_fail: one of its ?-operators
\* failed); on Err the temporary file is dropped with the function's locals.
replace_in_file_line_by_line(content, regex, rep, W, io_fail) ==
  LET s == RunLoop(OpenState(content, W), regex, rep, W)
  IN  IF io_fail \/ s.pc # "flush"
      THEN [ok |-> FALSE, text |-> <<>>]
      ELSE [ok |-> TRUE, text |-> s.file]

\* replace_in_file_whole_file: Ok with the text written (one replace_all over
\* the whole content), or Err when one of its ?-operators failed.
replace_in_file_whole_file(content, regex, rep, io_fail) ==
  IF io_fail
  THEN [ok |-> FALSE, text |-> <<>>]
  ELSE [ok |-> TRUE, text |-> replace_all(regex, content, rep)]

\* replace_in_file in the order its commented-out lines give: the whole-file
\* replacer first, the windowed replacer when it returned Err.
replace_in_file_WholeFirst(content, regex, rep, W, io_lbl, io_whole) ==
  LET first == replace_in_file_whole_file(content, regex, rep, io_whole)
  IN  IF first.ok
      THEN [ok |-> TRUE, text |-> first.text, lbl |-> "none", whole |-> "ok"]
      ELSE LET second == replace_in_file_line_by_line(content, regex, rep, W, io_lbl)
           IN  [ok |-> second.ok, text |-> second.text, whole |-> "err",
                lbl |-> IF second.ok THEN "ok" ELSE "err"]

\* replace_in_file: the windowed replacer first, the whole-file replacer
\* when it returned Err.  lbl and whole tell which replacers ran and how they
\* ended.
replace_in_file(content, regex, rep, W, io_lbl, io_whole) ==
  LET first == replace_in_file_line_by_line(content, regex, rep, W, io_lbl)
  IN  IF first.ok
      THEN [ok |-> TRUE, text |-> first.text, lbl |-> "ok", whole |-> "none"]
      ELSE LET second == replace_in_file_whole_file(content, regex, rep, io_whole)
           IN  [ok |-> second.ok, text |-> second.text, lbl |-> "err",
                whole |-> IF second.ok THEN "ok" ELSE "err"]

\* ---------------------------------------------------------------- variables
VARIABLES
  re,               \* the compiled regex (main's re; the replacers' parameter)
  replacement,      \* the unescaped replacement text
  max_line_number,  \* the window size W
  target,           \* replacer run: the content of target_file
  run,              \* replacer run: the state of replace_in_file_line_by_line
  args,             \* main: the parsed arguments and where the file list comes from
  files,            \* main: the file list
  disk,             \* main: the content of every existing file
  perms,            \* main: the permission bits of every existing file
  jobs,             \* main: per entry of files, the state of its replace_in_file
  temps,            \* main: per entry of files, the persisted temporary file
  temp_files,       \* main: the collected (file, temp_file) pairs
  mpc,              \* main: where the process stands
  ci,               \* main: the index in temp_files of the pair being committed
  cstep,            \* main: the next commit step of that pair
  metadata,         \* main: the permissions fs::metadata returned for that pair
  hist              \* main: what has happened (for the properties only)

vars == <<re, replacement, max_line_number, target, run, args, files, disk, perms,
          jobs, temps, temp_files, mpc, ci, cstep, metadata, hist>>

mainVars == <<args, files, disk, perms, jobs, temps, temp_files, mpc, ci, cstep,
              metadata, hist>>

\* ------------------------------------------------------------------ inputs
\* The line texts of generated files.
LineTexts == {<<>>, <<"a">>, <<"b">>}

\* Every file of at most MaxLines lines, with and without a final LF.
Contents ==
  LET lineSeqs == UNION {[1..n -> LineTexts] : n \in 0..MaxLines}
  IN  {Join(ls, LF) : ls \in lineSeqs} \cup {Join(ls, LF) \o <<LF>> : ls \in lineSeqs}

\* Pattern sources: one-line patterns and patterns with \n escapes.
PatternSources ==
  { <<"a">>, <<"b", "a">>,
    <<"a", BS, "n", "b">>, <<BS, "n">>, <<"b", BS, "n">>,
    <<"a", BS, "n", BS, "n", "b">> }

\* Replacement texts (already unescaped).
Replacements == { <<>>, <<"b">>, <<"a", "a">>, <<"a", LF, "b">>, <<LF>> }

\* The scenarios of the documentation: content, pattern source, replacement.
Scenarios ==
  { << <<"f","o","o",LF,"b","a","r",LF>>, <<"f","o","o">>, <<"b","a","z">> >>,
    << <<" ">>,                           <<" ">>,         <<" ", " ">> >>,
    << <<" ", LF>>,                       <<" ">>,         <<" ", " ">> >>,
    << <<"a",LF,"b",LF,"c",LF>>,          <<"a",BS,"n","b">>, <<"X">> >> }

\* Files long enough for a third window at W=2, with a replacement that
\* inserts a line separator and one that removes one.
LongInputs ==
  { << <<"a",LF,"b",LF,"c",LF,"c",LF,"c",LF,"c",LF,"c">>, <<"a",BS,"n","b">>, <<LF, LF>> >>,
    << <<"c",LF,"c",LF,"a",LF,"b",LF,"c",LF,"c",LF,"c">>, <<"a",BS,"n","b">>, <<"X">> >> }

ReplacerInputs == (Contents \X PatternSources \X Replacements) \cup Scenarios \cup LongInputs

NoRun ==
  [buffer_lines |-> <<>>, line_reader |-> <<>>, file |-> <<>>,
   last_lines |-> <<>>, next |-> <<>>, pc |-> "none",
   iters |-> 0, marks |-> <<>>, resub |-> FALSE]

NoArgs ==
  [pattern |-> <<>>, replacement |-> <<>>, directory |-> "none",
   files |-> <<>>, files_given |-> FALSE, stdin_tty |-> TRUE, stdin |-> <<>>]

NoHist ==
  [disk0 |-> <<>>, perms0 |-> <<>>, reported |-> {}, produced |-> <<>>,
   last_writer |-> <<>>, failed_at |-> 0, walk_failed |-> FALSE, copies |-> <<>>]

\* Main's variables while only a replacer (or the sizer) is being run.
MainIdle ==
  /\ args = NoArgs
  /\ files = <<>>
  /\ disk = <<>>
  /\ perms = <<>>
  /\ jobs = <<>>
  /\ temps = <<>>
  /\ temp_files = <<>>
  /\ mpc = "idle"
  /\ ci = 0
  /\ cstep = 0
  /\ metadata = "none"
  /\ hist = NoHist

\* ------------------------------------------- specification of the replacer
\* One run of replace_in_file_line_by_line on one file, step by step.
InitW ==
  /\ \E inp \in ReplacerInputs :
       /\ target = inp[1]
       /\ re = RegexNew(inp[2]).lit
       /\ max_line_number = MaxLineNumber(inp[2])
       /\ replacement = inp[3]
  /\ run = [NoRun EXCEPT !.pc = "open"]
  /\ MainIdle

\* Lines 84-104: create the temporary file, open the target, load the buffer.
WOpen ==
  /\ run.pc = "open"
  /\ run' = OpenState(target, max_line_number)
  /\ UNCHANGED <<re, replacement, max_line_number, target, mainVars>>

\* Lines 106-180: one turn of the loop.
WLoop ==
  /\ run.pc = "loop"
  /\ run' = LoopStep(run, re, replacement, max_line_number)
  /\ UNCHANGED <<re, replacement, max_line_number, target, mainVars>>

\* Lines 181-188: flush, persist the temporary file, return Ok.
WPersist ==
  /\ run.pc = "flush"
  /\ run' = [run EXCEPT !.pc = "ok"]
  /\ UNCHANGED <<re, replacement, max_line_number, target, mainVars>>

\* Any of the ?-operators fails: the run returns Err(io).
WIoError ==
  /\ run.pc \in {"open", "loop", "flush"}
  /\ run' = [run EXCEPT !.pc = "io_err"]
  /\ UNCHANGED <<re, replacement, max_line_number, target, mainVars>>

NextW == WIoError \/ WOpen \/ WLoop \/ WPersist

SpecW == InitW /\ [][NextW]_vars

\* The run as the process executes it: a call that has started goes on until
\* it returns (nothing blocks or cancels it).
SpecWL == SpecW /\ WF_vars(NextW)

\* ------------------------------------------------ specification of main
\* The files that exist, the path that does not, and the permission bits.
Paths == {"f1", "f2"}
Missing == "nofile"
Perms0 == [p \in Paths |-> IF p = "f1" THEN "644" ELSE "755"]
\* NamedTempFile::new creates the file readable and writable by its owner only.
TempPerm == "600"

\* The contents the files start with: f1 holds a match of the two-line
\* pattern, f2 holds it too or is a single line without a final LF.
MainDisks ==
  { [p \in Paths |-> IF p = "f1" THEN <<"a", LF, "b", LF, "c", LF>> ELSE c] :
      c \in { <<"a", LF, "b", LF, "c", LF>>, <<"a">> } }

\* --pattern and --replacement as given: a two-line pattern, the same with a
\* replacement that matches again, a one-line pattern, an invalid regex, an
\* invalid replacement escape.
MainArgPairs ==
  { << <<"a", BS, "n", "b">>, <<"X">> >>,
    << <<"a", BS, "n", "b">>, <<"a", BS, "n", "b">> >>,
    << <<"a">>, <<"a", "a">> >>,
    << <<"a", BS>>, <<"X">> >>,
    << <<"a">>, <<BS, "q">> >> }

\* File lists of m..n paths, existing or not, repetitions allowed.
PathLists(m, n) == UNION {[1..k -> Paths \cup {Missing}] : k \in m..n}

\* The ways the file set is given: --directory (existing or not), --files,
\* or paths piped on stdin (the directory then defaults to the current one).
Sources ==
  {[directory |-> d, files |-> <<>>, files_given |-> FALSE, stdin_tty |-> TRUE,
    stdin |-> <<>>] : d \in {"exists", "missing"}}
  \cup
  {[directory |-> "none", files |-> l, files_given |-> TRUE, stdin_tty |-> TRUE,
    stdin |-> <<>>] : l \in PathLists(1, MaxJobs)}
  \cup
  {[directory |-> "exists", files |-> <<>>, files_given |-> FALSE, stdin_tty |-> FALSE,
    stdin |-> l] : l \in PathLists(0, MaxJobs)}

Init ==
  /\ \E pr \in MainArgPairs, src \in Sources :
       args = [pattern |-> pr[1], replacement |-> pr[2], directory |-> src.directory,
               files |-> src.files, files_given |-> src.files_given,
               stdin_tty |-> src.stdin_tty, stdin |-> src.stdin]
  /\ disk \in MainDisks
  /\ perms = Perms0
  /\ hist = [NoHist EXCEPT !.disk0 = disk, !.perms0 = perms,
                           !.last_writer = [p \in Paths |-> 0]]
  /\ files = <<>>
  /\ jobs = <<>>
  /\ temps = <<>>
  /\ temp_files = <<>>
  /\ mpc = "start"
  /\ ci = 0
  /\ cstep = 0
  /\ metadata = "none"
  /\ re = <<>>
  /\ replacement = <<>>
  /\ max_line_number = 0
  /\ target = <<>>
  /\ run = NoRun

replacerVars == <<target, run>>

\* Args::validate_paths: every path named by an argument exists.
PathsValid ==
  /\ args.directory # "missing"
  /\ args.files_given => \A k \in 1..Len(args.files) : args.files[k] \in Paths

\* Args::parse_args, its validate_paths passing.
ValidateOk ==
  /\ mpc = "start"
  /\ PathsValid
  /\ mpc' = "collect"
  /\ UNCHANGED <<re, replacement, max_line_number, replacerVars, args, files, disk,
                 perms, jobs, temps, temp_files, ci, cstep, metadata, hist>>

\* Args::validate_paths finds a missing path: process::exit(1).
ValidateFail ==
  /\ mpc = "start"
  /\ ~PathsValid
  /\ mpc' = "exit1"
  /\ UNCHANGED <<re, replacement, max_line_number, replacerVars, args, files, disk,
                 perms, jobs, temps, temp_files, ci, cstep, metadata, hist>>

\* walk_directory: the files under the directory.
walk_directory == <<"f1", "f2">>

\* The file list: the piped paths when stdin is no terminal, else the
\* directory's files followed by the --files paths.
CollectedFiles ==
  IF ~args.stdin_tty THEN args.stdin
  ELSE (IF args.directory # "none" THEN walk_directory ELSE <<>>)
       \o (IF args.files_given THEN args.files ELSE <<>>)

CollectFiles ==
  /\ mpc = "collect"
  /\ files' = CollectedFiles
  /\ mpc' = "prepare"
  /\ UNCHANGED <<re, replacement, max_line_number, replacerVars, args, disk,
                 perms, jobs, temps, temp_files, ci, cstep, metadata, hist>>

\* walk_directory meets an error while walking: process::exit(1).
WalkFail ==
  /\ mpc = "collect"
  /\ args.stdin_tty
  /\ args.directory # "none"
  /\ mpc' = "exit1"
  /\ hist' = [hist EXCEPT !.walk_failed = TRUE]
  /\ UNCHANGED <<re, replacement, max_line_number, replacerVars, args, files, disk,
                 perms, jobs, temps, temp_files, ci, cstep, metadata>>

NoTemp == [exists |-> FALSE, text |-> <<>>, perm |-> "none"]

\* The window size, the unescaped replacement and the compiled regex are all
\* there: the jobs can start.
PrepareOk ==
  /\ mpc = "prepare"
  /\ unescape(args.replacement).ok
  /\ RegexNew(args.pattern).ok
  /\ max_line_number' = MaxLineNumber(args.pattern)
  /\ replacement' = unescape(args.replacement).text
  /\ re' = RegexNew(args.pattern).lit
  /\ jobs' = [j \in 1..Len(files) |-> [state |-> "todo", lbl |-> "none", whole |-> "none"]]
  /\ temps' = [j \in 1..Len(files) |-> NoTemp]
  /\ hist' = [hist EXCEPT !.produced = [j \in 1..Len(files) |-> <<>>],
                          !.copies = [j \in 1..Len(files) |-> 0]]
  /\ mpc' = "jobs"
  /\ UNCHANGED <<replacerVars, args, files, disk, perms, temp_files, ci, cstep, metadata>>

\* unescape returns None: process::exit(1).
UnescapeFail ==
  /\ mpc = "prepare"
  /\ ~unescape(args.replacement).ok
  /\ max_line_number' = MaxLineNumber(args.pattern)
  /\ mpc' = "exit1"
  /\ UNCHANGED <<re, replacement, replacerVars, args, files, disk,
                 perms, jobs, temps, temp_files, ci, cstep, metadata, hist>>

\* Regex::new returns Err: process::exit(1).
RegexFail ==
  /\ mpc = "prepare"
  /\ unescape(args.replacement).ok
  /\ ~RegexNew(args.pattern).ok
  /\ max_line_number' = MaxLineNumber(args.pattern)
  /\ replacement' = unescape(args.replacement).text
  /\ mpc' = "exit1"
  /\ UNCHANGED <<re, replacerVars, args, files, disk,
                 perms, jobs, temps, temp_files, ci, cstep, metadata, hist>>

\* The closure of par_iter().filter_map for entry j: replace_in_file on the
\* file as it is on disk; Ok keeps the temporary file, Err is printed.  The
\* ?-operators of either replacer may fail, and do fail for a missing file.
Job(j) ==
  /\ mpc = "jobs"
  /\ jobs[j].state = "todo"
  /\ LET present == files[j] \in DOMAIN disk
         content == IF present THEN disk[files[j]] ELSE <<>>
     IN  \E io_lbl \in (IF present THEN BOOLEAN ELSE {TRUE}),
            io_whole \in (IF present THEN BOOLEAN ELSE {TRUE}) :
           LET r == replace_in_file(content, re, replacement, max_line_number,
                                    io_lbl, io_whole)
           IN  /\ jobs' = [jobs EXCEPT ![j] =
                             [state |-> IF r.ok THEN "ok" ELSE "failed",
                              lbl |-> r.lbl, whole |-> r.whole]]
               /\ temps' = [temps EXCEPT ![j] =
                             IF r.ok
                             THEN [exists |-> TRUE, text |-> r.text, perm |-> TempPerm]
                             ELSE NoTemp]
               /\ hist' = [hist EXCEPT
                             !.reported = IF r.ok THEN @ ELSE @ \cup {j},
                             !.produced[j] = r.text]
  /\ UNCHANGED <<re, replacement, max_line_number, replacerVars, args, files, disk,
                 perms, temp_files, mpc, ci, cstep, metadata>>

\* collect() returning as soon as one closure has returned.
SomeJobDone == \E j \in 1..Len(jobs) : jobs[j].state # "todo"

\* collect() returns once every closure has returned.
AllJobsDone == \A j \in 1..Len(jobs) : jobs[j].state # "todo"

\* A map that keeps every entry, failed or not.
KeptAll(j) == TRUE

\* filter_map keeps the entries whose replace_in_file returned Ok.
Kept(j) == jobs[j].state = "ok"

\* The pairs in the reverse of the file list's order.
RECURSIVE PairsFrom_Reversed(_)
PairsFrom_Reversed(j) ==
  IF j > Len(files) THEN <<>>
  ELSE PairsFrom_Reversed(j + 1)
       \o (IF jobs[j].state = "ok" THEN <<[file |-> files[j], temp |-> j]>> ELSE <<>>)

RECURSIVE PairsFrom(_)
PairsFrom(j) ==
  IF j > Len(files) THEN <<>>
  ELSE (IF Kept(j) THEN <<[file |-> files[j], temp |-> j]>> ELSE <<>>) \o PairsFrom(j + 1)

\* temp_files: the (file, temp_file) pairs, in the order of the file list.
CollectTempFiles ==
  /\ mpc = "jobs"
  /\ AllJobsDone
  /\ temp_files' = PairsFrom(1)
  /\ mpc' = "commit"
  /\ ci' = 1
  /\ cstep' = 1
  /\ UNCHANGED <<re, replacement, max_line_number, replacerVars, args, files, disk,
                 perms, jobs, temps, metadata, hist>>

\* The commit steps with the copy ahead of the permission change.
CommitOrder_CopyFirst == <<"metadata", "copy", "set_permissions", "remove_file">>

\* The steps of the commit loop's body, in order.
CommitOrder == <<"metadata", "set_permissions", "copy", "remove_file">>

\* A failed commit step that is only reported: the loop goes on.
CommitFailPc_GoOn == "commit"

\* Where the process goes when a commit step fails: process::exit(1).
CommitFailPc == "exit1"

Committing(step) ==
  /\ mpc = "commit"
  /\ ci <= Len(temp_files)
  /\ CommitOrder[cstep] = step

\* After a step: the next step of this pair, or the first of the next pair.
Advance ==
  IF cstep = Len(CommitOrder)
  THEN /\ ci' = ci + 1
       /\ cstep' = 1
  ELSE /\ ci' = ci
       /\ cstep' = cstep + 1

CommitFail ==
  /\ mpc' = CommitFailPc
  /\ hist' = [hist EXCEPT !.failed_at = ci]
  /\ UNCHANGED <<re, replacement, max_line_number, replacerVars, args, files, disk,
                 perms, jobs, temps, temp_files, ci, cstep, metadata>>

\* fs::metadata(&file)
CommitMetadata ==
  /\ Committing("metadata")
  /\ \/ /\ metadata' = perms[temp_files[ci].file]
        /\ Advance
        /\ UNCHANGED <<re, replacement, max_line_number, replacerVars, args, files,
                       disk, perms, jobs, temps, temp_files, mpc, hist>>
     \/ CommitFail

\* fs::set_permissions(&temp_file, metadata.permissions())
CommitSetPermissions ==
  /\ Committing("set_permissions")
  /\ \/ /\ temps' = [temps EXCEPT ![temp_files[ci].temp].perm = metadata]
        /\ Advance
        /\ UNCHANGED <<re, replacement, max_line_number, replacerVars, args, files,
                       disk, perms, jobs, temp_files, mpc, metadata, hist>>
     \/ CommitFail

\* fs::copy(&temp_file, &file): the content and the permission bits of the
\* temporary file replace those of the original.  A copy that fails is taken
\* to fail before it writes (the destination cannot be opened).
CommitCopy ==
  /\ Committing("copy")
  /\ \/ /\ disk' = [disk EXCEPT ![temp_files[ci].file] = temps[temp_files[ci].temp].text]
        /\ perms' = [perms EXCEPT ![temp_files[ci].file] = temps[temp_files[ci].temp].perm]
        /\ hist' = [hist EXCEPT !.last_writer[temp_files[ci].file] = ci,
                                !.copies[temp_files[ci].temp] = @ + 1]
        /\ Advance
        /\ UNCHANGED <<re, replacement, max_line_number, replacerVars, args, files,
                       jobs, temps, temp_files, mpc, metadata>>
     \/ CommitFail

\* A removal that leaves the temporary file where it is.
Removed_Kept(t) == t

\* The temporary file t once fs::remove_file has removed it.
Removed(t) == NoTemp

\* fs::remove_file(&temp_file)
CommitRemove ==
  /\ Committing("remove_file")
  /\ \/ /\ temps' = [temps EXCEPT ![temp_files[ci].temp] = Removed(@)]
        /\ Advance
        /\ UNCHANGED <<re, replacement, max_line_number, replacerVars, args, files,
                       disk, perms, jobs, temp_files, mpc, metadata, hist>>
     \/ CommitFail

\* The commit loop is over: main returns.
Exit0 ==
  /\ mpc = "commit"
  /\ ci > Len(temp_files)
  /\ mpc' = "exit0"
  /\ UNCHANGED <<re, replacement, max_line_number, replacerVars, args, files, disk,
                 perms, jobs, temps, temp_files, ci, cstep, metadata, hist>>

Next ==
  \/ ValidateOk
  \/ ValidateFail
  \/ CollectFiles
  \/ WalkFail
  \/ PrepareOk
  \/ UnescapeFail
  \/ RegexFail
  \/ \E j \in 1..Len(jobs) : Job(j)
  \/ CollectTempFiles
  \/ CommitMetadata
  \/ CommitSetPermissions
  \/ CommitCopy
  \/ CommitRemove
  \/ Exit0

Spec == Init /\ [][Next]_vars

\* ------------------------------------------ specification of the window sizer
\* The pieces generated patterns are made of: the seven escape forms, a
\* plain letter, and the letter n on its own.
Pieces == {NEW_LINES[k] : k \in 1..Len(NEW_LINES)} \cup {<<"a">>, <<"n">>}

SizerPatterns == {Concat(ps) : ps \in UNION {[1..n -> Pieces] : n \in 0..MaxPieces}}

InitS ==
  /\ \E pat \in SizerPatterns : args = [NoArgs EXCEPT !.pattern = pat]
  /\ files = <<>>
  /\ disk = <<>>
  /\ perms = <<>>
  /\ jobs = <<>>
  /\ temps = <<>>
  /\ temp_files = <<>>
  /\ mpc = "sizer"
  /\ ci = 0
  /\ cstep = 0
  /\ metadata = "none"
  /\ hist = NoHist
  /\ re = <<>>
  /\ replacement = <<>>
  /\ max_line_number = 0
  /\ target = <<>>
  /\ run = NoRun

\* Lines 357-367: count the escape forms in args.pattern, add one.
ComputeWindow ==
  /\ mpc = "sizer"
  /\ max_line_number' = MaxLineNumber(args.pattern)
  /\ mpc' = "sized"
  /\ UNCHANGED <<re, replacement, target, run, args, files, disk, perms, jobs, temps,
                 temp_files, ci, cstep, metadata, hist>>

NextS == ComputeWindow

SpecS == InitS /\ [][NextS]_vars

\* ------------------------------------------------ properties of the replacer
\* The text replace_in_file_whole_file writes for the run's inputs.
WholeFileText == replace_in_file_whole_file(target, re, replacement, FALSE).text

EndsWithLF(text) == text # <<>> /\ text[Len(text)] = LF

\* The number of LF characters at the very end of text.
TrailingLFs(text) ==
  Cardinality({n \in 1..Len(text) : \A k \in (Len(text) - n + 1)..Len(text) : text[k] = LF})

\* The lines of the source, and how many of them the reader has handed out.
SourceLines == BufLines(target)
Consumed == Len(SourceLines) - Len(run.line_reader)

\* The per-line substitution results of the first n source lines, each
\* followed by LF.
PerLineResult(n) ==
  Concat([k \in 1..n |-> replace_all(re, SourceLines[k], replacement) \o <<LF>>])

\* C1: whenever the windowed replacer returns success, its artifact equals,
\* byte for byte, the artifact of the whole-file replacer on the same file,
\* pattern and replacement (every pattern drawn here is a literal whose
\* matches span exactly W lines, so the window assumption always holds).
C1_WindowedEqualsWholeFile ==
  run.pc = "ok" => run.file = WholeFileText

\* C2: with W=2, content "a\nb\nc\n", pattern a<LF>b and replacement "X" the
\* artifact is "X\nc\n"; in general, for W>1, the lines of the held suffix are
\* emitted at the end of the source in order, separated by LF as in the blob.
C2_SuffixKeepsLines ==
  /\ ( /\ run.pc = "ok"
       /\ target = <<"a", LF, "b", LF, "c", LF>>
       /\ re = <<"a", LF, "b">>
       /\ replacement = <<"X">>
       /\ max_line_number = 2 )
     => run.file = <<"X", LF, "c", LF>>
  /\ (run.pc = "ok" /\ max_line_number > 1)
     => LET tail == Join(run.last_lines, LF)
        IN  /\ Len(tail) <= Len(run.file)
            /\ SubSeq(run.file, Len(run.file) - Len(tail) + 1, Len(run.file)) = tail

\* C3: end-of-file exactness for every W: a source without a final LF gets no
\* final LF beyond those the substitution itself yields, and a source with a
\* final LF keeps exactly that one.
C3_EndOfFileExact ==
  run.pc = "ok" =>
    /\ ~EndsWithLF(target) => TrailingLFs(run.file) <= TrailingLFs(WholeFileText)
    /\ EndsWithLF(target) => TrailingLFs(run.file) = TrailingLFs(WholeFileText)

\* C4: with W=1 every source line is substituted exactly once and nothing
\* substituted re-enters the Line Buffer: the held suffix is always empty, the
\* buffer is the one source line just read, and the artifact is the per-line
\* substitution results in source order (a line " " with " " -> "  " gives two
\* spaces; "foo\nbar\n" with foo -> baz gives "baz\nbar\n").
C4_SingleLineOnce ==
  max_line_number = 1 =>
    /\ run.last_lines = <<>>
    /\ run.pc = "loop" =>
         /\ Len(run.buffer_lines) <= 1
         /\ run.buffer_lines =
              SubSeq(SourceLines, Consumed - Len(run.buffer_lines) + 1, Consumed)
         /\ run.file = PerLineResult(Consumed - Len(run.buffer_lines))
    /\ run.pc \in {"flush", "ok"} => run.file = PerLineResult(Len(SourceLines))
    /\ (run.pc = "ok" /\ target \in {<<" ">>, <<" ", LF>>} /\ re = <<" ">>
          /\ replacement = <<" ", " ">>)
       => run.file = <<" ", " ", LF>>
    /\ (run.pc = "ok" /\ target = <<"f","o","o",LF,"b","a","r",LF>>
          /\ re = <<"f","o","o">> /\ replacement = <<"b","a","z">>)
       => run.file = <<"b","a","z",LF,"b","a","r",LF>>

\* A finished W=1 run over several lines whose substituted text the pattern
\* still matches.
C4_Witness ==
  /\ max_line_number = 1
  /\ run.pc = "ok"
  /\ Len(SourceLines) >= 2
  /\ run.file # target
  /\ is_match(re, run.file)

\* ------------------------------------------------ properties of the sizer
\* The forms of NEW_LINES that occur in pattern at index i.
FormsAt(pattern, i) == {k \in 1..Len(NEW_LINES) : OccursAt(NEW_LINES[k], pattern, i)}

\* The length of the longest form that occurs in pattern at index i.
LongestAt(pattern, i) ==
  LET ks == FormsAt(pattern, i)
  IN  Len(NEW_LINES[CHOOSE k \in ks : \A m \in ks : Len(NEW_LINES[m]) <= Len(NEW_LINES[k])])

RECURSIVE OccurrencesFrom(_, _)
OccurrencesFrom(pattern, i) ==
  IF i > Len(pattern) THEN 0
  ELSE IF FormsAt(pattern, i) = {} THEN OccurrencesFrom(pattern, i + 1)
  ELSE 1 + OccurrencesFrom(pattern, i + LongestAt(pattern, i))

\* k: the escapes of the pattern, each counted once (a CR+LF escape is one).
EscapeOccurrences(pattern) == OccurrencesFrom(pattern, 1)

\* C6: for a pattern with exactly k occurrences of the escape forms, each
\* counted once (the CR+LF escape too), W = k + 1; W >= 1 always, and W = 1
\* when the pattern has no such escape.
C6_WindowIsEscapesPlusOne ==
  mpc = "sized" =>
    /\ max_line_number = EscapeOccurrences(args.pattern) + 1
    /\ max_line_number >= 1
    /\ EscapeOccurrences(args.pattern) = 0 => max_line_number = 1

\* --------------------------------------------------- properties of main
NJobs == Len(jobs)
Done(j) == jobs[j].state # "todo"

\* The content the whole-file replacer yields for the original of entry j.
GroundTruth(j) == replace_all(re, hist.disk0[files[j]], replacement)

\* Whether the windowed replacer, run without I/O failure on the original of
\* entry j, signals a structural failure.
Structural(j) ==
  ~replace_in_file_line_by_line(hist.disk0[files[j]], re, replacement,
                                max_line_number, FALSE).ok

\* C5: whenever the windowed replacer fails, replace_in_file runs the
\* whole-file replacer and the job's outcome is the whole-file replacer's (its
\* artifact is the whole-file ground truth); the job is reported only when the
\* whole-file attempt failed too; the whole-file replacer never runs after a
\* windowed success.
C5_FallbackOutcome ==
  \A j \in 1..NJobs :
    Done(j) =>
      /\ jobs[j].lbl \in {"ok", "err"}
      /\ jobs[j].lbl = "ok" => (jobs[j].whole = "none" /\ jobs[j].state = "ok")
      /\ jobs[j].lbl = "err" =>
           /\ jobs[j].whole \in {"ok", "err"}
           /\ jobs[j].state = "ok" <=> jobs[j].whole = "ok"
           /\ jobs[j].whole = "ok" => hist.produced[j] = GroundTruth(j)
      /\ j \in hist.reported <=> (jobs[j].lbl = "err" /\ jobs[j].whole = "err")

\* A run that ended with status 0 after a structural failure of the windowed
\* replacer: the file holds the whole-file ground truth.
C5_Witness ==
  /\ mpc = "exit0"
  /\ \E j \in 1..NJobs :
       /\ files[j] \in Paths
       /\ Structural(j)
       /\ jobs[j].lbl = "err"
       /\ jobs[j].whole = "ok"
       /\ disk[files[j]] = GroundTruth(j)

\* C7: no original is modified while a job is still running; the first
\* commit step comes after every job has finished; commits go one file at a
\* time, and an original only ever changes by being overwritten wholesale with
\* the finished artifact of the pair being committed.
C7_CommitAfterAllJobs ==
  [][ /\ (disk' # disk \/ perms' # perms \/ metadata' # metadata)
         => (mpc = "commit" /\ \A j \in 1..NJobs : jobs[j].state # "todo")
      /\ (\E j \in 1..NJobs : jobs[j].state = "todo")
         => (disk' = hist.disk0 /\ perms' = hist.perms0)
      /\ disk' # disk
         => /\ ci \in 1..Len(temp_files)
            /\ disk' = [disk EXCEPT ![temp_files[ci].file] =
                                      hist.produced[temp_files[ci].temp]]
            /\ jobs[temp_files[ci].temp].state = "ok"
    ]_vars

\* The commit phase between two files: the first pair is committed and has
\* changed its original, the second is still to come.
C7_Witness ==
  /\ mpc = "commit"
  /\ Len(temp_files) >= 2
  /\ ci = 2
  /\ disk # hist.disk0

\* Whether entry j has been committed: its commit loop body has run through.
Committed(j) ==
  \E k \in 1..Len(temp_files) : temp_files[k].temp = j /\ k < ci

\* What C8 says of a failed job, but for the file's content: reported, no
\* artifact, not in the commit phase; the other jobs ran; at exit status 0
\* every job that succeeded is committed.
C8_JobPart ==
  /\ \A j \in 1..NJobs :
       jobs[j].state = "failed" =>
         /\ j \in hist.reported
         /\ ~temps[j].exists
         /\ \A k \in 1..Len(temp_files) : temp_files[k].temp # j
  /\ mpc \in {"commit", "exit0"} => \A j \in 1..NJobs : jobs[j].state # "todo"
  /\ mpc = "exit0" =>
       \A j \in 1..NJobs :
         jobs[j].state = "ok" =>
           /\ Committed(j)
           /\ ~temps[j].exists
           /\ hist.last_writer[files[j]] # 0

Untouched(p) == disk[p] = hist.disk0[p] /\ perms[p] = hist.perms0[p]

\* C8 as claimed: a file whose replacement failed is reported, gets no
\* artifact, is excluded from the commit and keeps its original content and
\* permissions, while every other job runs and every job that succeeded is
\* committed.
C8_FailedFileUntouched ==
  /\ C8_JobPart
  /\ \A j \in 1..NJobs :
       (jobs[j].state = "failed" /\ files[j] \in Paths) => Untouched(files[j])

\* C8 as amended: the failed file keeps its content and permissions unless
\* the same path is also the file of another entry whose job succeeded.
C8_FailedJobSkipped ==
  /\ C8_JobPart
  /\ \A j \in 1..NJobs :
       ( /\ jobs[j].state = "failed"
         /\ files[j] \in Paths
         /\ \A k \in 1..NJobs : jobs[k].state = "ok" => files[k] # files[j] )
       => Untouched(files[j])

\* A run that ended with status 0 in which one existing file failed and
\* another was committed with changed content.
C8_Witness ==
  /\ mpc = "exit0"
  /\ \E j, k \in 1..NJobs :
       /\ jobs[j].state = "failed"
       /\ files[j] \in Paths
       /\ jobs[k].state = "ok"
       /\ files[k] # files[j]
       /\ disk[files[k]] # hist.disk0[files[k]]
       /\ Untouched(files[j])

\* C9: a failed commit step ends the run with non-zero status: the pairs
\* after the failing one are untouched, a file that only occurs after it is
\* unmodified, and every file committed before it keeps replaced content.
C9_CommitFailureIsFatal ==
  hist.failed_at > 0 =>
    LET i == hist.failed_at
    IN  /\ mpc = "exit1"
        /\ ci = i
        /\ \A k \in (i + 1)..Len(temp_files) :
             temps[temp_files[k].temp] =
               [exists |-> TRUE, text |-> hist.produced[temp_files[k].temp],
                perm |-> TempPerm]
        /\ \A p \in Paths :
             (\A k \in 1..i : temp_files[k].file # p) => Untouched(p)
        /\ \A k \in 1..(i - 1) :
             LET p == temp_files[k].file
                 w == hist.last_writer[p]
             IN  /\ w \in k..i
                 /\ disk[p] = hist.produced[temp_files[w].temp]

\* A commit that failed at its second pair, after the first pair changed its
\* file, with a third pair still waiting.
C9_Witness ==
  /\ hist.failed_at = 2
  /\ Len(temp_files) >= 3
  /\ temp_files[1].file # temp_files[3].file
  /\ disk[temp_files[1].file] # hist.disk0[temp_files[1].file]

\* C10: per pair the commit steps run in the order metadata, set_permissions,
\* copy, remove_file; after a commit the original path holds the artifact's
\* content with its pre-replacement permission bits and the artifact is gone.
C10_CommitStepOrder ==
  mpc \in {"commit", "exit0", "exit1"} =>
    \A k \in 1..Len(temp_files) :
      LET p == temp_files[k].file
          t == temp_files[k].temp
      IN  /\ perms[p] = hist.perms0[p]
          /\ k < ci =>
               /\ ~temps[t].exists
               /\ hist.last_writer[p] >= k
               /\ hist.last_writer[p] = k => disk[p] = hist.produced[t]
          /\ k = ci =>
               /\ temps[t].exists
               /\ temps[t].text = hist.produced[t]
               /\ cstep >= 2 => metadata = hist.perms0[p]
               /\ temps[t].perm = IF cstep >= 3 THEN hist.perms0[p] ELSE TempPerm
               /\ cstep >= 4 => (hist.last_writer[p] = k /\ disk[p] = hist.produced[t])
               /\ cstep <= 3 => hist.last_writer[p] < k
          /\ k > ci =>
               /\ temps[t] = [exists |-> TRUE, text |-> hist.produced[t], perm |-> TempPerm]
               /\ hist.last_writer[p] < k

\* A run that ended with status 0 and changed a file whose permission bits
\* differ from a temporary file's.
C10_Witness ==
  /\ mpc = "exit0"
  /\ \E k \in 1..Len(temp_files) :
       /\ disk[temp_files[k].file] # hist.disk0[temp_files[k].file]
       /\ perms[temp_files[k].file] # TempPerm
       /\ ~temps[temp_files[k].temp].exists

\* A validation error of the input: a path of the file set (named by an
\* argument or piped on stdin) does not exist, the replacement has an invalid
\* escape, or the pattern is no regex.
InputInvalid ==
  \/ args.directory = "missing"
  \/ \E k \in 1..Len(args.files) : args.files[k] \notin Paths
  \/ \E k \in 1..Len(args.stdin) : args.stdin[k] \notin Paths
  \/ ~unescape(args.replacement).ok
  \/ ~RegexNew(args.pattern).ok

\* C11: with a validation error in the input, whatever the file source, the
\* process ends with non-zero status before any job starts, before any
\* artifact exists and before any file is modified.
C11_InvalidInputStopsEarly ==
  InputInvalid =>
    /\ mpc \in {"start", "collect", "prepare", "jobs", "exit1"}
    /\ \A j \in 1..NJobs : jobs[j].state = "todo" /\ ~temps[j].exists
    /\ disk = hist.disk0
    /\ perms = hist.perms0

\* C12: the exit status is non-zero exactly when a validation error (a
\* directory that cannot be walked counted as one) or a failed commit step
\* occurred; failed jobs alone leave the status at 0.
C12_ExitStatus ==
  mpc \in {"exit0", "exit1"} =>
    (mpc = "exit1" <=> (InputInvalid \/ hist.walk_failed \/ hist.failed_at > 0))

\* ------------------------------------- further properties of the replacer
\* The substituted blob of the window at the loop head.
WindowBlob == replace_all(re, Join(run.buffer_lines, LF), replacement)

\* C13: absent I/O errors the run signals a structural failure exactly in a
\* pass of the loop body with W>1 whose substituted blob the pattern still
\* matches; with W=1 it never does, whatever the substituted text.
C13_StructuralFailureIff ==
  [][ /\ run'.pc = "err" =>
           /\ run.pc = "loop"
           /\ max_line_number > 1
           /\ is_match(re, WindowBlob)
      /\ ( /\ run.pc = "loop"
           /\ run.buffer_lines # <<>>
           /\ max_line_number > 1
           /\ is_match(re, WindowBlob)
           /\ run'.pc # "io_err" ) => run'.pc = "err"
      /\ max_line_number = 1 => run'.pc # "err" ]_vars

\* A structural failure signalled in a window after the first one.
C13_Witness ==
  /\ run.pc = "err"
  /\ max_line_number > 1
  /\ run.iters >= 2

\* C14: in every state of a run the Line Buffer holds at most 2W lines when
\* W>1 and at most one line when W=1, whatever the file and the replacement
\* (replacements that insert or remove line separators included).
C14_BufferBounded ==
  Len(run.buffer_lines) <= (IF max_line_number = 1 THEN 1 ELSE 2 * max_line_number)

\* A full Line Buffer at the head of a later window, after a substitution
\* that inserted a line separator.
C14_Witness ==
  /\ max_line_number > 1
  /\ run.pc = "loop"
  /\ run.iters >= 1
  /\ Len(run.buffer_lines) = 2 * max_line_number
  /\ replacement = <<LF, LF>>
  /\ run.file # <<>>

\* C15: on an empty file the loop body never runs and the run succeeds with
\* an empty artifact; on a non-empty file of at most the initial load (one
\* line for W=1, 2W lines otherwise) the loop body runs exactly once and the
\* run then leaves the loop, with success unless the re-match check fails.
C15_ShortFiles ==
  LET n    == Len(SourceLines)
      load == IF max_line_number = 1 THEN 1 ELSE 2 * max_line_number
  IN  /\ target = <<>> =>
           /\ run.iters = 0
           /\ run.file = <<>>
           /\ run.pc # "err"
      /\ (0 < n /\ n <= load) =>
           /\ run.pc \in {"open", "loop"} => run.iters = 0
           /\ run.pc \in {"flush", "ok", "err"} => run.iters = 1
           /\ run.pc = "err" => max_line_number > 1 /\ run.file = <<>>
           /\ run.iters <= 1

\* A file of exactly the initial load of a multi-line pattern, substituted
\* and finished after its single pass.
C15_Witness ==
  /\ max_line_number > 1
  /\ Len(SourceLines) = 2 * max_line_number
  /\ run.pc = "ok"
  /\ run.iters = 1
  /\ run.file # target

\* A step that reads from the source (the initial load, or a pass of the
\* loop body that gets as far as its read): the lines pulled are the next
\* ones of the source, at most as many as asked for, and the cursor moves
\* past exactly those.
PullInOrder ==
  ( /\ run.pc = "open" \/ (run.pc = "loop" /\ run.buffer_lines # <<>>)
    /\ run'.pc \in {"loop", "flush"} )
  => LET k   == Len(run'.next)
         ask == IF run.pc = "loop" \/ max_line_number = 1
                THEN max_line_number ELSE 2 * max_line_number
         at  == IF run.pc = "open" THEN 0 ELSE Consumed
     IN  /\ k <= ask
         /\ run'.next = SubSeq(SourceLines, at + 1, at + k)
         /\ run'.line_reader = SubSeq(SourceLines, at + k + 1, Len(SourceLines))
         /\ k = 0 => at = Len(SourceLines)
         /\ run.pc = "loop" => (run'.pc = "loop" <=> k >= 1)
         /\ run.pc = "loop" => (run'.pc = "flush" <=> k = 0)

\* C16: every run over a finite file ends, with success or failure; every
\* pass of the loop body that does not leave the loop pulls at least one and
\* at most W lines, the lines are pulled in source order with none skipped
\* or read twice, and the loop is left in the first pass whose pull is empty.
C16_Terminates ==
  /\ [][PullInOrder]_vars
  /\ <>(run.pc \in {"ok", "err", "io_err"})

\* A multi-line run that ended with success after three passes or more.
C16_Witness ==
  /\ max_line_number > 1
  /\ run.pc = "ok"
  /\ run.iters >= 3
  /\ Len(SourceLines) > 2 * max_line_number

\* C17: for W>1, in a run that returns success no substitution consumes text
\* that a substitution of an earlier window produced (no double substitution
\* across window boundaries without a structural failure).
C17_NoDoubleSubstitution ==
  (max_line_number > 1 /\ run.pc = "ok") => ~run.resub

\* ------------------------------------------- further properties of main
\* The artifact of the windowed replacer for the original of entry j.
WindowedTruth(j) ==
  replace_in_file_line_by_line(hist.disk0[files[j]], re, replacement,
                               max_line_number, FALSE).text

\* The entries of the file list that name path p and whose job succeeded.
OkEntries(p) == {j \in 1..NJobs : files[j] = p /\ jobs[j].state = "ok"}

\* C18: the final content of a committed file does not depend on the order
\* in which the jobs ran: while jobs run no file has been overwritten, every
\* artifact is one replacer's output for the pre-run content, and at exit
\* status 0 a path holds the artifact of its last successful entry of the file
\* list (one application of the substitution, also when the path is listed
\* more than once); a path without a successful entry is unchanged.
C18_FinalContentFromOriginal ==
  /\ mpc = "jobs" => disk = hist.disk0
  /\ \A j \in 1..NJobs :
       jobs[j].state = "ok" =>
         /\ jobs[j].lbl = "ok" => hist.produced[j] = WindowedTruth(j)
         /\ jobs[j].lbl # "ok" => hist.produced[j] = GroundTruth(j)
  /\ mpc = "exit0" =>
       \A p \in Paths :
         IF OkEntries(p) = {} THEN disk[p] = hist.disk0[p]
         ELSE LET last == CHOOSE j \in OkEntries(p) : \A k \in OkEntries(p) : k <= j
              IN  /\ disk[p] = hist.produced[last]
                  /\ disk[p] \in {WindowedTruth(last), GroundTruth(last)}

\* A run that ended with status 0 after committing two different artifacts
\* over the same path.
C18_Witness ==
  /\ mpc = "exit0"
  /\ \E j, k \in 1..NJobs :
       /\ j < k
       /\ files[j] = files[k]
       /\ jobs[j].state = "ok" /\ jobs[k].state = "ok"
       /\ hist.produced[j] # hist.produced[k]
       /\ disk[files[j]] = hist.produced[k]
       /\ disk[files[j]] # hist.disk0[files[j]]

\* The pair of the commit loop that holds the artifact of entry j (0: none).
PairOf(j) ==
  IF \E k \in 1..Len(temp_files) : temp_files[k].temp = j
  THEN CHOOSE k \in 1..Len(temp_files) : temp_files[k].temp = j
  ELSE 0

\* C19 as stated, for every way the process ends: each artifact of the run
\* has been committed exactly once and deleted, or discarded uncommitted, so
\* none is left.
C19_ArtifactLifecycle ==
  mpc \in {"exit0", "exit1"} =>
    \A j \in 1..NJobs : hist.copies[j] <= 1 /\ ~temps[j].exists

\* C19, corrected: no artifact is copied more than once; a job that failed
\* leaves no artifact and nothing of it is ever copied; the artifact of a job
\* whose windowed attempt aborted is the whole-file replacer's, never the
\* partial one; an artifact is deleted only after its copy; at exit status 0
\* every artifact has been copied once and deleted; an artifact is left
\* behind only by a commit failure, which ends the process with the artifact
\* of the failing pair and those of the later pairs still in place.
C19_ArtifactLifecycleUnlessFatal ==
  \A j \in 1..NJobs :
    /\ hist.copies[j] <= 1
    /\ jobs[j].state # "ok" => (~temps[j].exists /\ hist.copies[j] = 0)
    /\ jobs[j].state = "ok" =>
         /\ temps[j].exists \/ hist.copies[j] = 1
         /\ temps[j].exists => temps[j].text = hist.produced[j]
         /\ jobs[j].lbl = "err" => hist.produced[j] = GroundTruth(j)
         /\ hist.copies[j] = 1 => (PairOf(j) # 0 /\ PairOf(j) <= ci)
    /\ mpc = "exit0" =>
         /\ ~temps[j].exists
         /\ jobs[j].state = "ok" => hist.copies[j] = 1
    /\ (mpc = "exit1" /\ temps[j].exists) =>
         /\ hist.failed_at > 0
         /\ PairOf(j) >= hist.failed_at
    /\ (mpc = "exit1" /\ jobs[j].state = "ok" /\ PairOf(j) < hist.failed_at) =>
         (~temps[j].exists /\ hist.copies[j] = 1)

\* A commit failure at the second pair: the first artifact is copied and
\* deleted, the second is still there when the process has ended.
C19_Witness ==
  /\ mpc = "exit1"
  /\ hist.failed_at = 2
  /\ ~temps[temp_files[1].temp].exists
  /\ hist.copies[temp_files[1].temp] = 1
  /\ temps[temp_files[2].temp].exists
  /\ jobs[temp_files[2].temp].lbl = "err"

====
